---- MODULE Spec2Model ----
(***************************************************************************)
(* Model of crewai.flow.flow: the FlowMeta metaclass that collects the     *)
(* start methods and listeners of a Flow subclass, and Flow.run /          *)
(* Flow._execute_listeners, which walk the resulting trigger graph.        *)
(*                                                                         *)
(* A Flow subclass body is a sequence of step declarations (the class      *)
(* dict, in declaration order).  run() is unfolded into one action per     *)
(* step invocation and per return, with the Python call stack of           *)
(* _execute_listeners frames explicit, so that orderings inside one run    *)
(* can be stated.  `log` and `printed` are the observable history: the     *)
(* step invocations made and the lines written by print().                 *)
(***************************************************************************)
EXTENDS Integers, Sequences, FiniteSets, TLC

\* ------------------------------------------------------------------ bounds
\* Number of run() calls made on one Flow instance.
MaxRuns == 2
\* Interpreter recursion limit, scaled down: the number of nested
\* _execute_listeners frames after which a further call raises RecursionError.
MaxDepth == 4

\* ------------------------------------------------------------------ values
\* Python's None: the absent upstream result and the result of a void step.
None == -1

\* ------------------------------------------------------- step bodies (inputs)
\* A step body is application code; the engine only calls it.  These are the
\* bodies the flows below are populated with.
\*   fetch  : returns 10
\*   double : returns input * 2 (TypeError when the input is None)
\*   count  : self.state counter += 1, returns None
\*   fail   : raises
\*   toggle : self.state counter += 1, then raises if the counter is odd,
\*            returns the counter otherwise
Bodies == {"fetch", "double", "count", "fail", "toggle"}

\* The outcomes one call of a body can have: whether it raised, the value it
\* returned, and the RunState it left.
StepOutcomes(body, input, st) ==
  CASE body = "fetch"  -> {[raised |-> FALSE, result |-> 10, state |-> st]}
    [] body = "double" -> IF input = None
                          THEN {[raised |-> TRUE, result |-> None, state |-> st]}
                          ELSE {[raised |-> FALSE, result |-> input * 2, state |-> st]}
    [] body = "count"  -> {[raised |-> FALSE, result |-> None, state |-> st + 1]}
    [] body = "fail"   -> {[raised |-> TRUE, result |-> None, state |-> st]}
    [] body = "toggle" -> IF (st + 1) % 2 = 1
                          THEN {[raised |-> TRUE, result |-> None, state |-> st + 1]}
                          ELSE {[raised |-> FALSE, result |-> st + 1, state |-> st + 1]}

\* ------------------------------------------------- class bodies (inputs)
\* One declaration of the class body: attribute name, whether @start() was
\* applied, the trigger names given to @listen(...), and the body.
Decl(n, s, t, b) == [name |-> n, start |-> s, triggers |-> t, body |-> b]

\* A class body given as a sequence of <<name, start, triggers>> and a
\* sequence of bodies of the same length.
WithBodies(shape, bs) ==
  [i \in 1..Len(shape) |-> Decl(shape[i][1], shape[i][2], shape[i][3], bs[i])]

AllBodies(shape) == {WithBodies(shape, bs) : bs \in [1..Len(shape) -> Bodies]}

\* fetch -> double -> report
ChainShape == << <<"fetch", TRUE, <<>> >>,
                 <<"double", FALSE, <<"fetch">> >>,
                 <<"report", FALSE, <<"double">> >> >>
\* two entry points, the first with a two-level subtree
TwoStartShape == << <<"a", TRUE, <<>> >>,
                    <<"b", TRUE, <<>> >>,
                    <<"c", FALSE, <<"a">> >>,
                    <<"d", FALSE, <<"c">> >> >>
\* x with sibling listeners y, z; w below y
SiblingShape == << <<"x", TRUE, <<>> >>,
                   <<"y", FALSE, <<"x">> >>,
                   <<"z", FALSE, <<"x">> >>,
                   <<"w", FALSE, <<"y">> >> >>
\* w reachable over two trigger edges
DiamondShape == << <<"x", TRUE, <<>> >>,
                   <<"y", FALSE, <<"x">> >>,
                   <<"z", FALSE, <<"x">> >>,
                   <<"w", FALSE, <<"y", "z">> >> >>
\* g listens on a name no step has; h listens on g
GhostShape == << <<"a", TRUE, <<>> >>,
                 <<"g", FALSE, <<"ghost">> >>,
                 <<"b", FALSE, <<"a">> >>,
                 <<"h", FALSE, <<"g">> >> >>
\* no @start() at all
NoStartShape == << <<"p", FALSE, <<>> >>,
                   <<"q", FALSE, <<"p">> >> >>
\* listener declared before its triggers, triggers listed against declaration order
OrderShape == << <<"z", FALSE, <<"y", "x">> >>,
                 <<"x", TRUE, <<>> >>,
                 <<"y", TRUE, <<>> >> >>

\* three listeners on x, the first with a listener of its own
TripleShape == << <<"x", TRUE, <<>> >>,
                  <<"y", FALSE, <<"x">> >>,
                  <<"z", FALSE, <<"x">> >>,
                  <<"v", FALSE, <<"x">> >>,
                  <<"w", FALSE, <<"y">> >> >>
\* The bodies TripleShape is populated with.
TripleBodies == {"fetch", "fail", "toggle"}

\* Every class body over the two names a, b: each step a start method or
\* not, listening on nothing, on a, on b, on an undeclared name, or on both.
SmallTriggers == {<<>>, <<"a">>, <<"b">>, <<"ghost">>, <<"a", "b">>, <<"b", "a">>}
SmallShapes ==
  {<< <<"a", sa, ta>>, <<"b", sb, tb>> >> :
      sa \in BOOLEAN, sb \in BOOLEAN, ta \in SmallTriggers, tb \in SmallTriggers}

Shapes == {ChainShape, TwoStartShape, SiblingShape, DiamondShape, GhostShape,
           NoStartShape, OrderShape} \cup SmallShapes

Flows ==
  UNION {AllBodies(s) : s \in Shapes}
    \cup {WithBodies(TripleShape, bs) : bs \in [1..Len(TripleShape) -> TripleBodies]}

\* ------------------------------------------------------------- FlowMeta
\* Variant of StartMethods: a declaration carrying __trigger_methods__ is
\* taken for a start method too.
RECURSIVE StartMethods_anyTagged(_)
StartMethods_anyTagged(d) ==
  IF d = <<>> THEN <<>>
  ELSE (IF Head(d).start \/ Head(d).triggers # <<>> THEN <<Head(d).name>> ELSE <<>>)
       \o StartMethods_anyTagged(Tail(d))

\* FlowMeta.__new__, lines 12-17: names of the declarations that carry
\* __is_start_method__, in dct order.
RECURSIVE StartMethods(_)
StartMethods(d) ==
  IF d = <<>> THEN <<>>
  ELSE (IF Head(d).start THEN <<Head(d).name>> ELSE <<>>) \o StartMethods(Tail(d))

\* Variant of AppendListener: the listener is put at the front of the list.
AppendListener_prepend(ls, trig, attr) ==
  IF trig \in DOMAIN ls
  THEN [ls EXCEPT ![trig] = <<attr>> \o @]
  ELSE [k \in DOMAIN ls \cup {trig} |-> IF k = trig THEN <<attr>> ELSE ls[k]]

\* Variant of AppendListener: the list of a trigger is overwritten instead of
\* appended to.
AppendListener_overwrite(ls, trig, attr) ==
  [k \in DOMAIN ls \cup {trig} |-> IF k = trig THEN <<attr>> ELSE ls[k]]

\* listeners[trigger_name].append(attr_name), creating the list when absent
\* (lines 21-23).
AppendListener(ls, trig, attr) ==
  IF trig \in DOMAIN ls
  THEN [ls EXCEPT ![trig] = Append(@, attr)]
  ELSE [k \in DOMAIN ls \cup {trig} |-> IF k = trig THEN <<attr>> ELSE ls[k]]

\* The inner loop over attr_value.__trigger_methods__ (lines 19-23).
RECURSIVE AddTriggers(_, _, _)
AddTriggers(ls, trigs, attr) ==
  IF trigs = <<>> THEN ls
  ELSE AddTriggers(AppendListener(ls, Head(trigs), attr), Tail(trigs), attr)

\* The loop over dct.items() building the listeners dict (lines 13-23).
RECURSIVE Listeners(_, _)
Listeners(d, ls) ==
  IF d = <<>> THEN ls
  ELSE Listeners(Tail(d), AddTriggers(ls, Head(d).triggers, Head(d).name))

EmptyDict == [k \in {} |-> <<>>]

\* Flow.__init__, lines 45-52: the registry of callables by attribute name.
Methods(d) ==
  [n \in {d[i].name : i \in 1..Len(d)} |->
     (CHOOSE i \in 1..Len(d) : d[i].name = n)]

\* Flow._create_initial_state with initial_state None or a zero-valued
\* template: the counter the bodies above increment starts at 0.
InitialState == 0

\* ------------------------------------------------------------------ state
VARIABLES
  dct,             \* the class body the Flow subclass was defined with
  _start_methods,  \* cls._start_methods
  _listeners,      \* cls._listeners
  _methods,        \* self._methods: name -> index of the declaration in dct
  _state,          \* self._state
  pc,              \* "idle": no run() in progress; "run": inside run()
  si,              \* position of run()'s for loop in _start_methods
  stack,           \* active _execute_listeners frames, innermost last
  runs,            \* number of run() calls started
  outcomes,        \* how each finished run() ended
  log,             \* every step invocation made, in order
  printed          \* every line print() wrote: the listener it names

vars == <<dct, _start_methods, _listeners, _methods, _state, pc, si, stack,
          runs, outcomes, log, printed>>

graph == <<dct, _start_methods, _listeners, _methods>>

Init ==
  /\ dct \in Flows
  /\ _start_methods = StartMethods(dct)
  /\ _listeners = Listeners(dct, EmptyDict)
  /\ _methods = Methods(dct)
  /\ _state = InitialState
  /\ pc = "idle"
  /\ si = 0
  /\ stack = <<>>
  /\ runs = 0
  /\ outcomes = <<>>
  /\ log = <<>>
  /\ printed = <<>>

\* ---------------------------------------------------------------- helpers
Top == stack[Len(stack)]

BodyOf(n) == dct[_methods[n]].body

\* A frame of _execute_listeners(trigger_method, result): `idx` is the
\* position of its for loop, `inv` the log entry of the step that produced
\* `result`, `root` the log entry of the entry point whose traversal this is.
Frame(t, r, i, rt) == [trigger |-> t, result |-> r, idx |-> 1, inv |-> i, root |-> rt]

\* The innermost frame returned: the frame below it resumes after its
\* recursive call (line 79) and its for loop moves to the next listener; with
\* no frame below, control is back in run()'s loop (line 72).
PopStack(stk) ==
  IF Len(stk) = 1 THEN <<>>
  ELSE SubSeq(stk, 1, Len(stk) - 2) \o
       <<[stk[Len(stk) - 1] EXCEPT !.idx = @ + 1]>>

\* Variant of ListenersOf: a trigger whose listeners an enclosing frame is
\* already iterating is not propagated again (a visited set per traversal).
ListenersOf_visited(t) ==
  IF t \in DOMAIN _listeners /\ \A f \in 1..(Len(stack) - 1) : stack[f].trigger # t
  THEN _listeners[t] ELSE <<>>

\* `if trigger_method in self._listeners` and the list iterated (lines 75-76).
ListenersOf(t) == IF t \in DOMAIN _listeners THEN _listeners[t] ELSE <<>>

\* One record of `log`.
Entry(step, kind, input, parent, root, pos, o) ==
  [run |-> runs, step |-> step, kind |-> kind, input |-> input,
   parent |-> parent, root |-> root, pos |-> pos, depth |-> Len(stack),
   raised |-> o.raised, result |-> o.result, seen |-> _state, left |-> o.state]

\* Variant of NoStartMethod: the check of line 67 is missing.
NoStartMethod_unchecked(sm) == FALSE

\* `if not self._start_methods` (line 67).
NoStartMethod(sm) == sm = <<>>

\* Variant of StartReady: the next start method is called without waiting
\* for the propagation of the previous one to return.
StartReady_eager(stk) == TRUE

\* run()'s for loop may take its next start method: the call of line 72 is
\* synchronous, so every frame it created has returned.
StartReady(stk) == stk = <<>>

\* Variant of PropagatedResult: the recursive call passes on the result the
\* frame itself received.
PropagatedResult_upstream(o, frame) == frame.result

\* The argument of the recursive call of line 79: the listener's own result.
PropagatedResult(o, frame) == o.result

\* Variant of AfterListener: the listener's own listeners are put off until
\* the remaining listeners of the current trigger have been called.
AfterListener_deferred(stk, o, f) ==
  IF o.raised THEN PopStack(stk)
  ELSE SubSeq(stk, 1, Len(stk) - 1) \o
       <<f, [stk[Len(stk)] EXCEPT !.idx = @ + 1]>>

\* Variant of AfterListener: the exception is raised again by every handler
\* on the way up, so all active frames are left.
AfterListener_unwind(stk, o, f) ==
  IF o.raised THEN <<>> ELSE Append(stk, f)

\* Variant of AfterListener: the recursion of line 79 happens although the
\* listener raised.
AfterListener_recurse(stk, o, f) == Append(stk, f)

\* Lines 77-82 after the listener call of line 78: on success recurse into
\* the listener's own listeners (a new frame); on an exception the handler
\* has printed and `return` leaves the current frame.
AfterListener(stk, o, f) ==
  IF o.raised THEN PopStack(stk) ELSE Append(stk, f)

\* Variant of Report: the line names the trigger method of the frame instead
\* of the listener whose call failed.
Report_trigger(pr, frame, name, id) ==
  Append(pr, [listener |-> frame.trigger, inv |-> id, by |-> frame.inv, run |-> runs])

\* The handler's print of line 81, made by the frame that called the
\* listener: the line names `listener`.  `inv` is the log entry of the failed
\* call (0 when the call itself hit the recursion limit), `by` the log entry
\* of the step whose listeners the reporting frame iterates.
Report(pr, frame, name, id) ==
  Append(pr, [listener |-> name, inv |-> id, by |-> frame.inv, run |-> runs])

\* Variant of StateLeft: the step worked on a copy of the RunState, so what
\* it wrote is lost.
StateLeft_copy(st, o) == st

\* self._state after a step call: the state property (lines 62-64) hands the
\* step the one object held in self._state, so what the step wrote stays.
StateLeft(st, o) == o.state

\* Variant of StateAtRun: run() starts from a fresh initial state.
StateAtRun_reset(st) == InitialState

\* self._state on entry to run(): lines 66-68 do not assign it, it is the
\* object created in __init__ (line 46).
StateAtRun(st) == st

\* ---------------------------------------------------------------- actions
\* run() is called (lines 66-68).
Run ==
  /\ pc = "idle"
  /\ runs < MaxRuns
  /\ runs' = runs + 1
  /\ IF NoStartMethod(_start_methods)
     THEN /\ outcomes' = Append(outcomes, "ValueError")
          /\ UNCHANGED <<pc, si>>
     ELSE /\ pc' = "run"
          /\ si' = 1
          /\ UNCHANGED outcomes
  /\ _state' = StateAtRun(_state)
  /\ UNCHANGED <<graph, stack, log, printed>>

\* One iteration of run()'s loop (lines 70-72): the start method is called
\* with no argument; its exception, if any, leaves run(); otherwise
\* _execute_listeners(start_method, result) is entered.
InvokeStart ==
  /\ pc = "run"
  /\ StartReady(stack)
  /\ si <= Len(_start_methods)
  /\ LET name == _start_methods[si]
         id == Len(log) + 1
     IN \E o \in StepOutcomes(BodyOf(name), None, _state) :
          /\ log' = Append(log, Entry(name, "start", None, 0, id, si, o))
          /\ _state' = StateLeft(_state, o)
          /\ IF o.raised
             THEN /\ pc' = "idle"
                  /\ si' = 0
                  /\ outcomes' = Append(outcomes, "StepError")
                  /\ UNCHANGED stack
             ELSE /\ stack' = Append(stack, Frame(name, o.result, id, id))
                  /\ si' = si + 1
                  /\ UNCHANGED <<pc, outcomes>>
  /\ UNCHANGED <<graph, runs, printed>>

\* One iteration of _execute_listeners' loop (lines 76-82): the listener is
\* called with the frame's result.
InvokeListener ==
  /\ pc = "run"
  /\ stack # <<>>
  /\ Len(stack) < MaxDepth
  /\ Top.idx <= Len(ListenersOf(Top.trigger))
  /\ LET name == ListenersOf(Top.trigger)[Top.idx]
         id == Len(log) + 1
     IN \E o \in StepOutcomes(BodyOf(name), Top.result, _state) :
          /\ log' = Append(log, Entry(name, "listener", Top.result, Top.inv,
                                      Top.root, Top.idx, o))
          /\ _state' = StateLeft(_state, o)
          /\ stack' = AfterListener(stack, o,
                        Frame(name, PropagatedResult(o, Top), id, Top.root))
          /\ printed' = IF o.raised THEN Report(printed, Top, name, id)
                        ELSE printed
  /\ UNCHANGED <<graph, pc, si, runs, outcomes>>

\* The interpreter's recursion limit is reached: the call of line 78 raises
\* RecursionError before the listener's body runs; it is an Exception, so the
\* handler of lines 80-82 prints and returns.
RecursionLimit ==
  /\ pc = "run"
  /\ stack # <<>>
  /\ Len(stack) >= MaxDepth
  /\ Top.idx <= Len(ListenersOf(Top.trigger))
  /\ printed' = Report(printed, Top, ListenersOf(Top.trigger)[Top.idx], 0)
  /\ stack' = PopStack(stack)
  /\ UNCHANGED <<graph, _state, pc, si, runs, outcomes, log>>

\* Variant of ReturnListeners: the list of the trigger is removed from
\* self._listeners once it has been iterated.
ReturnListeners_consume ==
  /\ pc = "run"
  /\ stack # <<>>
  /\ Top.idx > Len(ListenersOf(Top.trigger))
  /\ stack' = PopStack(stack)
  /\ _listeners' = [k \in DOMAIN _listeners \ {Top.trigger} |-> _listeners[k]]
  /\ UNCHANGED <<dct, _start_methods, _methods, _state, pc, si, runs, outcomes,
                 log, printed>>

\* _execute_listeners returns normally: its trigger has no listeners
\* (line 75) or its loop is exhausted (line 76).
ReturnListeners ==
  /\ pc = "run"
  /\ stack # <<>>
  /\ Top.idx > Len(ListenersOf(Top.trigger))
  /\ stack' = PopStack(stack)
  /\ UNCHANGED <<graph, _state, pc, si, runs, outcomes, log, printed>>

\* run()'s loop is exhausted and run() returns None (line 70).
RunReturn ==
  /\ pc = "run"
  /\ stack = <<>>
  /\ si > Len(_start_methods)
  /\ pc' = "idle"
  /\ si' = 0
  /\ outcomes' = Append(outcomes, "returned")
  /\ UNCHANGED <<graph, _state, stack, runs, log, printed>>

Next ==
  \/ Run
  \/ InvokeStart
  \/ InvokeListener
  \/ RecursionLimit
  \/ ReturnListeners
  \/ RunReturn

Spec == Init /\ [][Next]_vars

TypeOK ==
  /\ pc \in {"idle", "run"}
  /\ runs \in 0..MaxRuns
  /\ Len(stack) <= MaxDepth

\* ------------------------------------------------------- history helpers
Ids == 1..Len(log)

\* No run() is in progress: every run() started has ended.
Quiet == pc = "idle"

\* The listener entries made by the firing of entry p at list position k.
Fired(p, k) == {j \in Ids : log[j].kind = "listener" /\ log[j].parent = p /\ log[j].pos = k}

\* The start-method entries of run r, as the sequence of their log indices.
RECURSIVE StartsOf(_, _)
StartsOf(r, n) ==
  IF n = 0 THEN <<>>
  ELSE StartsOf(r, n - 1) \o
       (IF log[n].run = r /\ log[n].kind = "start" THEN <<n>> ELSE <<>>)

StepNames == {dct[i].name : i \in 1..Len(dct)}

\* ------------------------------------------------------------------ C1
\* C1: when a listener raises, every listener registered after it on the same
\* trigger is still invoked afterwards with the trigger step's result.
\* (Stated for ended runs; the code returns from the loop instead.)
C1_SiblingsInvokedAfterError ==
  Quiet =>
    \A i \in Ids :
      (log[i].kind = "listener" /\ log[i].raised) =>
        LET p == log[i].parent
            ls == ListenersOf(log[p].step)
        IN \A k \in (log[i].pos + 1)..Len(ls) :
             \E j \in Fired(p, k) :
               j > i /\ log[j].step = ls[k] /\ log[j].input = log[p].result

\* ------------------------------------------------------------------ C2
\* C2: with at least one start method, every run() returns normally,
\* whichever steps raise.
C2_RunNeverFailsOnStepError ==
  _start_methods # <<>> =>
    \A r \in 1..Len(outcomes) : outcomes[r] = "returned"

\* ------------------------------------------------------------------ C3
\* C3: with at least one start method, an ended run() has invoked every
\* start method exactly once as an entry point, with no upstream result, in
\* declaration order.
C3_EveryStartOnceInOrder ==
  _start_methods # <<>> =>
    \A r \in 1..Len(outcomes) :
      LET ss == StartsOf(r, Len(log))
      IN /\ [n \in 1..Len(ss) |-> log[ss[n]].step] = _start_methods
         /\ \A n \in 1..Len(ss) : log[ss[n]].input = None

\* ------------------------------------------------------------------ C4
\* C4: a step error anywhere in an entry point's traversal (the entry point
\* itself included) does not keep the later entry points of the same run()
\* from being invoked.
C4_LaterStartsAfterError ==
  \A i \in Ids :
    (log[i].raised /\ log[i].run <= Len(outcomes)) =>
      \A n \in (log[log[i].root].pos + 1)..Len(_start_methods) :
        \E j \in Ids :
          /\ j > i
          /\ log[j].run = log[i].run
          /\ log[j].kind = "start"
          /\ log[j].pos = n
          /\ log[j].step = _start_methods[n]

\* ------------------------------------------------------------------ C5
\* C5: when an invocation of X raises, nothing is invoked on behalf of that
\* invocation (no listener of X fires from it, hence none of their
\* descendants), and X is not invoked a second time for the same firing.
C5_ErrorPrunesSubtreeNoRetry ==
  \A i \in Ids :
    log[i].raised =>
      /\ \A j \in Ids : log[j].kind = "listener" => log[j].parent # i
      /\ \A j \in Ids \ {i} :
           ~ /\ log[j].run = log[i].run
             /\ log[j].kind = log[i].kind
             /\ log[j].parent = log[i].parent
             /\ log[j].pos = log[i].pos

\* A step that has listeners registered raised, and the run went on to end.
C5_Witness ==
  /\ Quiet
  /\ \E i \in Ids : log[i].raised /\ ListenersOf(log[i].step) # <<>>
  /\ \E i \in Ids : log[i].raised /\ log[i].kind = "listener"
                    /\ ListenersOf(log[i].step) # <<>>

\* ------------------------------------------------------------------ C6
\* The class body of the scenario: fetch returns 10, double returns twice its
\* input, report listens on double.
FetchDoubleReport == WithBodies(ChainShape, <<"fetch", "double", "count">>)

\* C6: a listener is invoked with the result of the invocation that
\* triggered it, which completed without error: with A -> B -> C, C receives
\* B's result, not A's.  In the scenario the first run() invokes fetch,
\* double, report in this order, double receiving 10 and report 20.
C6_MultiHopResult ==
  /\ \A j \in Ids :
       log[j].kind = "listener" =>
         LET b == log[j].parent
         IN /\ b \in 1..(j - 1)
            /\ ~log[b].raised
            /\ log[j].input = log[b].result
            /\ log[j].pos \in 1..Len(ListenersOf(log[b].step))
            /\ log[j].step = ListenersOf(log[b].step)[log[j].pos]
  /\ (dct = FetchDoubleReport /\ Len(outcomes) >= 1) =>
       /\ outcomes[1] = "returned"
       /\ {j \in Ids : log[j].run = 1} = 1..3
       /\ [n \in 1..3 |-> <<log[n].step, log[n].input, log[n].result>>]
            = << <<"fetch", None, 10>>, <<"double", 10, 20>>, <<"report", 20, None>> >>

\* A third hop was invoked, and B's result differs from A's.
C6_Witness ==
  \E j \in Ids :
    /\ log[j].kind = "listener"
    /\ log[log[j].parent].kind = "listener"
    /\ log[j].input # log[log[log[j].parent].parent].result
    /\ log[j].input = 20

\* ------------------------------------------------------------------ C7
\* C7: for every invocation of T that completed with result r and every
\* listener L registered on T, an ended run has invoked L exactly once for
\* that firing, with input r.  (Frames the recursion limit cut are left out.)
C7_ListenerOncePerFiring ==
  Quiet =>
    \A t \in Ids :
      (~log[t].raised /\ log[t].depth + 1 < MaxDepth) =>
        \A k \in 1..Len(ListenersOf(log[t].step)) :
          /\ Cardinality(Fired(t, k)) = 1
          /\ \A j \in Fired(t, k) :
               /\ log[j].step = ListenersOf(log[t].step)[k]
               /\ log[j].input = log[t].result

\* ------------------------------------------------------------------ C8
\* C8: with no start method, run() fails with the configuration error before
\* any step is invoked: nothing is logged, the loop is never entered and the
\* RunState keeps its initial value.
C8_NoStartFailsBeforeAnyStep ==
  _start_methods = <<>> =>
    /\ log = <<>>
    /\ _state = InitialState
    /\ pc = "idle"
    /\ stack = <<>>
    /\ printed = <<>>
    /\ Len(outcomes) = runs
    /\ \A r \in 1..Len(outcomes) : outcomes[r] = "ValueError"

\* run() was called on a Flow whose class declares steps but no start method.
C8_Witness ==
  /\ _start_methods = <<>>
  /\ dct # <<>>
  /\ DOMAIN _listeners # {}
  /\ Len(outcomes) >= 1

\* ------------------------------------------------------------------ C9
\* The declarations that listen only on names no step has (and are not start
\* methods themselves).
Unresolved ==
  {i \in 1..Len(dct) :
     /\ dct[i].triggers # <<>>
     /\ ~dct[i].start
     /\ \A n \in 1..Len(dct[i].triggers) : dct[i].triggers[n] \notin StepNames}

\* C9: a listener all of whose trigger names match no declared step is
\* registered by the graph builder without error, is never invoked, and does
\* not make run() fail: a run() of such a Flow ends by returning, or with the
\* exception of a start method, or with the configuration error when there is
\* no start method.
C9_UnresolvedNeverFires ==
  \A u \in Unresolved :
    /\ \A n \in 1..Len(dct[u].triggers) :
         /\ dct[u].triggers[n] \in DOMAIN _listeners
         /\ \E k \in 1..Len(_listeners[dct[u].triggers[n]]) :
              _listeners[dct[u].triggers[n]][k] = dct[u].name
    /\ \A j \in Ids : log[j].step # dct[u].name
    /\ \A r \in 1..Len(outcomes) :
         \/ outcomes[r] = "returned"
         \/ /\ outcomes[r] = "StepError"
            /\ \E j \in Ids : log[j].run = r /\ log[j].kind = "start" /\ log[j].raised
         \/ outcomes[r] = "ValueError" /\ _start_methods = <<>>

\* A Flow with an unresolved listener ran to its end, invoking other listeners.
C9_Witness ==
  /\ Unresolved # {}
  /\ Len(outcomes) >= 1
  /\ outcomes[1] = "returned"
  /\ \E j \in Ids : log[j].kind = "listener"

\* ------------------------------------------------------------------ C10
\* C10: entry points run strictly one after the other: once an entry point
\* E2 has been invoked, no frame of an earlier entry point's traversal is
\* still active, and no step of an earlier entry point's subtree is invoked
\* after E2: an entry point is invoked with no frame active, and along the
\* log the entry point an invocation belongs to never goes back to an
\* earlier one.
C10_StartsStrictlySequential ==
  /\ \A j \in Ids :
       (log[j].kind = "start" /\ log[j].run = runs) =>
         \A f \in 1..Len(stack) : stack[f].root >= j
  /\ \A j \in Ids :
       /\ log[j].kind = "start" => (log[j].depth = 0 /\ log[j].root = j)
       /\ log[j].kind = "listener" =>
            (log[j].root < j /\ log[log[j].root].kind = "start")
       /\ j > 1 => log[j - 1].root <= log[j].root

\* A second entry point was invoked after the first one's listeners, two
\* levels deep, had run.
C10_Witness ==
  \E i \in Ids : \E j \in Ids : \E k \in Ids : \E m \in Ids :
    /\ i < j /\ j < k /\ k < m
    /\ log[i].kind = "start"
    /\ log[j].kind = "listener" /\ log[j].parent = i
    /\ log[k].kind = "listener" /\ log[k].parent = j
    /\ log[m].kind = "start" /\ log[m].run = log[i].run

\* ------------------------------------------------------------------ C11
\* The declaration of step s in the class body.
DeclOf(s) == dct[CHOOSE i \in 1..Len(dct) : dct[i].name = s]

\* Number of trigger paths of exactly k edges that lead from a start method
\* to step s, counted on the declared triggers.
RECURSIVE Walks(_, _)
RECURSIVE WalksVia(_, _, _)
WalksVia(trigs, n, k) ==
  IF n = 0 THEN 0
  ELSE WalksVia(trigs, n - 1, k) +
       (IF trigs[n] \in StepNames THEN Walks(trigs[n], k) ELSE 0)

Walks(s, k) ==
  IF k = 0 THEN (IF DeclOf(s).start THEN 1 ELSE 0)
  ELSE WalksVia(DeclOf(s).triggers, Len(DeclOf(s).triggers), k - 1)

\* Paths of at most Len(dct) edges: all of them when no cycle is reachable.
RECURSIVE PathsUpTo(_, _)
PathsUpTo(s, k) == IF k < 0 THEN 0 ELSE PathsUpTo(s, k - 1) + Walks(s, k)

PathsTo(s) == PathsUpTo(s, Len(dct))

\* The invocations of step s made by run r.
InvocationsOf(s, r) == {j \in Ids : log[j].run = r /\ log[j].step = s}

\* Run r has ended by returning, no step raised in it and nothing was
\* reported in it.
ErrorFree(r) ==
  /\ r \in 1..Len(outcomes)
  /\ outcomes[r] = "returned"
  /\ \A j \in Ids : log[j].run = r => ~log[j].raised
  /\ \A n \in 1..Len(printed) : printed[n].run # r

\* C11: within one run() two invocations always belong to two different
\* firings (a different entry-point position, or a different trigger
\* invocation or position in its listener list), and in an error-free run every step is invoked once per trigger
\* path leading to it from a start method, plus once if it is a start method.
C11_OncePerFiringEdge ==
  /\ Cardinality({<<log[j].run, log[j].kind, log[j].parent, log[j].pos>> : j \in Ids})
       = Len(log)
  /\ \A r \in 1..Len(outcomes) :
       ErrorFree(r) =>
         \A s \in StepNames : Cardinality(InvocationsOf(s, r)) = PathsTo(s)

\* An error-free run invoked one step twice, over two trigger edges.
C11_Witness ==
  /\ ErrorFree(1)
  /\ \E s \in StepNames :
       /\ Cardinality(InvocationsOf(s, 1)) = 2
       /\ ~DeclOf(s).start
       /\ Len(DeclOf(s).triggers) = 2

\* ------------------------------------------------------------------ C12
\* Entry a is an ancestor of entry j: j was invoked, directly or over further
\* listeners, on behalf of a.
RECURSIVE IsAncestor(_, _)
IsAncestor(a, j) ==
  /\ log[j].kind = "listener"
  /\ \/ log[j].parent = a
     \/ IsAncestor(a, log[j].parent)

\* C12: a listener that raises two or more levels below an entry point does
\* not stop the enclosing loops.  For each of its listener ancestors, the
\* listeners registered after the ancestor on the same trigger are invoked
\* afterwards with that trigger's result, up to and including the first one
\* that raises itself; and the entry points after the one being traversed are
\* invoked, up to and including the first one that raises itself.
C12_DeepErrorKeepsOuterLoops ==
  \A i \in Ids :
    ( /\ log[i].kind = "listener"
      /\ log[i].raised
      /\ log[log[i].parent].kind = "listener"
      /\ log[i].run <= Len(outcomes) ) =>
      /\ \A a \in Ids :
           (IsAncestor(a, i) /\ log[a].kind = "listener") =>
             LET q == log[a].parent
                 ls == ListenersOf(log[q].step)
             IN \A k \in (log[a].pos + 1)..Len(ls) :
                  (\A m \in (log[a].pos + 1)..(k - 1) :
                     \A j \in Fired(q, m) : ~log[j].raised) =>
                    \E j \in Fired(q, k) :
                      j > i /\ log[j].step = ls[k] /\ log[j].input = log[q].result
      /\ \A n \in (log[log[i].root].pos + 1)..Len(_start_methods) :
           (\A j \in Ids :
              ( /\ log[j].run = log[i].run
                /\ log[j].kind = "start"
                /\ log[j].pos \in (log[log[i].root].pos + 1)..(n - 1) ) =>
                ~log[j].raised) =>
             \E j \in Ids :
               /\ j > i
               /\ log[j].run = log[i].run
               /\ log[j].kind = "start"
               /\ log[j].step = _start_methods[n]

\* A listener two levels down raised, and the listener registered after its
\* parent on the parent's trigger was invoked afterwards.
C12_Witness ==
  \E i \in Ids : \E j \in Ids :
    /\ log[i].kind = "listener" /\ log[i].raised
    /\ log[log[i].parent].kind = "listener"
    /\ j > i
    /\ log[j].kind = "listener"
    /\ log[j].parent = log[log[i].parent].parent
    /\ log[j].pos = log[log[i].parent].pos + 1
    /\ log[i].run <= Len(outcomes)

\* ------------------------------------------------------------------ C13
\* Entry k together with the entries on whose behalf it was invoked.
RECURSIVE SelfAndAncestors(_)
SelfAndAncestors(k) ==
  IF log[k].kind = "start" THEN {k}
  ELSE {k} \cup SelfAndAncestors(log[k].parent)

\* C13: propagation is depth-first and synchronous.  Every active frame but
\* the outermost was entered by the frame beneath it, which waits at the
\* listener it called; and of two listeners fired by the same trigger
\* invocation, the one registered later is invoked only after the earlier
\* one and every invocation in its subtree: the invocation made last (every
\* invocation is, in the state it leads to) has, before it in the log, no
\* later sibling of itself or of one of its ancestors.
C13_DepthFirst ==
  /\ \A f \in 1..Len(stack) :
       /\ stack[f].inv \in Ids
       /\ stack[f].trigger = log[stack[f].inv].step
       /\ IF f = 1
          THEN log[stack[f].inv].kind = "start"
          ELSE /\ log[stack[f].inv].kind = "listener"
               /\ log[stack[f].inv].parent = stack[f - 1].inv
               /\ log[stack[f].inv].pos = stack[f - 1].idx
  /\ log # <<>> =>
       LET k == Len(log)
       IN \A j1 \in SelfAndAncestors(k) :
            \A j2 \in 1..(k - 1) :
              ~ /\ log[j1].kind = "listener" /\ log[j2].kind = "listener"
                /\ log[j1].parent = log[j2].parent
                /\ log[j1].pos < log[j2].pos

\* The earlier of two sibling listeners had a listener of its own, which was
\* invoked before the later sibling.
C13_Witness ==
  \E j1 \in Ids : \E j2 \in Ids : \E k \in Ids :
    /\ log[j1].kind = "listener" /\ log[j2].kind = "listener"
    /\ log[j1].parent = log[j2].parent
    /\ log[j1].pos < log[j2].pos
    /\ log[k].kind = "listener" /\ log[k].parent = j1
    /\ k < j2

\* ------------------------------------------------------------------ C14
\* The steps that declare one of the steps of S among their triggers.
ListeningOn(S) ==
  {dct[i].name : i \in {n \in 1..Len(dct) :
                         \E m \in 1..Len(dct[n].triggers) : dct[n].triggers[m] \in S}}

\* The steps reachable from S over one to n trigger edges.
RECURSIVE Downstream(_, _)
Downstream(S, n) ==
  IF n = 0 THEN {}
  ELSE ListeningOn(S) \cup Downstream(ListeningOn(S), n - 1)

DescendantsOf(s) == Downstream({s}, Len(dct))

StartSteps == {dct[i].name : i \in {n \in 1..Len(dct) : dct[n].start}}

ReachableSteps == StartSteps \cup Downstream(StartSteps, Len(dct))

Acyclic == \A s \in StepNames : s \notin DescendantsOf(s)

\* C14 (closure at return): on an acyclic trigger graph, when run() has
\* returned, every step reachable from a start method was invoked in that
\* run, except steps downstream of a step that raised in it.
C14_ClosureAtReturn ==
  Acyclic =>
    \A r \in 1..Len(outcomes) :
      outcomes[r] = "returned" =>
        \A s \in ReachableSteps :
          \/ InvocationsOf(s, r) # {}
          \/ \E e \in Ids :
               /\ log[e].run = r
               /\ log[e].raised
               /\ s \in DescendantsOf(log[e].step)

\* ------------------------------------------------------------------ C15
\* A cycle of trigger edges can be reached from a start method.
CycleReachable == \E s \in ReachableSteps : s \in DescendantsOf(s)

\* No step invoked by run r raised.
NoStepRaised(r) == \A j \in Ids : log[j].run = r => ~log[j].raised

\* C15 as claimed: with a reachable trigger cycle whose steps do not raise,
\* run() never comes to an end.
C15_CycleNeverReturns ==
  CycleReachable =>
    \A r \in 1..Len(outcomes) : ~NoStepRaised(r)

\* C15 as amended: with a reachable trigger cycle and no step raising, the
\* engine applies no cycle check: steps are invoked again and again on the
\* cycle, the nesting grows up to the interpreter's recursion limit and never
\* beyond, the RecursionError of the call that would exceed it is caught and
\* reported by the handler, and run() returns.
C15_CycleRunsToRecursionLimit ==
  /\ Len(stack) <= MaxDepth
  /\ CycleReachable =>
       \A r \in 1..Len(outcomes) :
         NoStepRaised(r) =>
           /\ outcomes[r] = "returned"
           /\ \E n \in 1..Len(printed) : printed[n].run = r /\ printed[n].inv = 0
           /\ \E j \in Ids : log[j].run = r /\ log[j].depth = MaxDepth - 1
           /\ \E j \in Ids :
                /\ log[j].run = r
                /\ \E a \in Ids : IsAncestor(a, j) /\ log[a].step = log[j].step

\* A run over a trigger cycle in which no step raised has returned.
C15_Witness ==
  /\ CycleReachable
  /\ Len(outcomes) >= 1
  /\ NoStepRaised(1)
  /\ outcomes[1] = "returned"
  /\ Cardinality({j \in Ids : log[j].run = 1}) >= MaxDepth

\* ------------------------------------------------------------------ C16
\* The lines printed for log entry i.
ReportsOf(i) == {n \in 1..Len(printed) : printed[n].inv = i}

\* C16: every error raised by a listener call is reported exactly once, by
\* the frame that made the call, the line naming the listener that failed;
\* nothing else is reported for a step call, and the error goes no further:
\* a run() ends with a step's exception only when its last call was a start
\* method that raised.
C16_ListenerErrorReportedOnce ==
  /\ \A i \in Ids :
       IF log[i].kind = "listener" /\ log[i].raised
       THEN /\ Cardinality(ReportsOf(i)) = 1
            /\ \A n \in ReportsOf(i) :
                 /\ printed[n].listener = log[i].step
                 /\ printed[n].by = log[i].parent
                 /\ printed[n].run = log[i].run
       ELSE ReportsOf(i) = {}
  /\ \A n \in 1..Len(printed) : printed[n].inv \in Ids \cup {0}
  /\ \A r \in 1..Len(outcomes) :
       outcomes[r] = "StepError" =>
         \E j \in Ids :
           /\ log[j].run = r /\ log[j].kind = "start" /\ log[j].raised
           /\ \A k \in Ids : (k > j) => log[k].run > r

\* A listener two levels down raised, the error was reported, and the run
\* went on to return.
C16_Witness ==
  \E i \in Ids :
    /\ log[i].kind = "listener" /\ log[i].raised
    /\ log[log[i].parent].kind = "listener"
    /\ log[i].step # log[log[i].parent].step
    /\ ReportsOf(i) # {}
    /\ log[i].run <= Len(outcomes)
    /\ outcomes[log[i].run] = "returned"

\* ------------------------------------------------------------------ C17
\* C17: one RunState is shared by all step invocations.  self._state always
\* holds what the last step invoked left in it (the initial state before any
\* step), so the engine changes it through step calls only; and within a run
\* every step observes the state exactly as the step invoked just before it
\* left it, whether that step returned or raised.
C17_SharedStateLastWriteWins ==
  /\ _state = IF log = <<>> THEN InitialState ELSE log[Len(log)].left
  /\ \A j \in Ids :
       IF j = 1
       THEN log[j].seen = InitialState
       ELSE log[j].run = log[j - 1].run => log[j].seen = log[j - 1].left

\* A step observed a write made by the step before it in the same run,
\* which itself had observed an earlier write.
C17_Witness ==
  \E j \in Ids :
    /\ j > 2
    /\ log[j].run = log[j - 2].run
    /\ log[j - 1].left # log[j - 1].seen
    /\ log[j - 1].seen # log[j - 2].seen
    /\ log[j].seen = log[j - 1].left
    /\ log[j].kind = "listener"

\* ------------------------------------------------------------------ C18
\* Position of step s in the class body.
DeclIndex(s) == CHOOSE i \in 1..Len(dct) : dct[i].name = s

\* The declarations that name t among their triggers.
NamingTrigger(t) ==
  {i \in 1..Len(dct) : \E m \in 1..Len(dct[i].triggers) : dct[i].triggers[m] = t}

\* Every name given to @listen(...) in the class body.
TriggerNames ==
  UNION {{dct[i].triggers[m] : m \in 1..Len(dct[i].triggers)} : i \in 1..Len(dct)}

\* Sequence q lists exactly the names of the declarations in I, in
\* declaration order.
ListsInDeclOrder(q, I) ==
  /\ Len(q) = Cardinality(I)
  /\ {q[n] : n \in 1..Len(q)} = {dct[i].name : i \in I}
  /\ \A n \in 1..Len(q) : \A m \in 1..Len(q) :
       n < m => DeclIndex(q[n]) < DeclIndex(q[m])

\* C18: the graph builder keeps declaration order.  _start_methods lists
\* exactly the steps tagged as start methods, in declaration order; the keys
\* of _listeners are exactly the trigger names used, and the list of trigger
\* t holds exactly the steps naming t among their triggers, in the order the
\* steps were declared, whatever the order the triggers were listed in.
C18_BuilderKeepsDeclarationOrder ==
  /\ ListsInDeclOrder(_start_methods, {i \in 1..Len(dct) : dct[i].start})
  /\ DOMAIN _listeners = TriggerNames
  /\ \A t \in DOMAIN _listeners : ListsInDeclOrder(_listeners[t], NamingTrigger(t))

\* A class body with two start methods, a trigger with two listeners, and a
\* listener whose triggers are listed against declaration order.
C18_Witness ==
  /\ Len(_start_methods) >= 2
  /\ \E t \in DOMAIN _listeners : Len(_listeners[t]) >= 2
  /\ \E i \in 1..Len(dct) :
       /\ Len(dct[i].triggers) = 2
       /\ dct[i].triggers[1] \in StepNames /\ dct[i].triggers[2] \in StepNames
       /\ DeclIndex(dct[i].triggers[1]) > DeclIndex(dct[i].triggers[2])

\* ------------------------------------------------------------------ C19
\* C19: run() and _execute_listeners never change the trigger graph or the
\* registry: in every state they are what was built from the class body, and
\* every invocation of every run follows that graph.
C19_GraphReadOnly ==
  /\ _start_methods = StartMethods(dct)
  /\ _listeners = Listeners(dct, EmptyDict)
  /\ _methods = Methods(dct)
  /\ \A j \in Ids :
       IF log[j].kind = "start"
       THEN log[j].step = StartMethods(dct)[log[j].pos]
       ELSE log[j].step = Listeners(dct, EmptyDict)[log[log[j].parent].step][log[j].pos]

\* A second run() has invoked listeners, after a first one in which a step
\* raised.
C19_Witness ==
  /\ runs = 2
  /\ \E j \in Ids : log[j].run = 1 /\ log[j].raised
  /\ \E j \in Ids : log[j].run = 2 /\ log[j].kind = "listener"
  /\ \E j \in Ids : log[j].run = 1 /\ log[j].kind = "listener" /\ ~log[j].raised

\* ------------------------------------------------------------------ C20
\* C20: run() does not reset the RunState: the first step of a later run()
\* observes the state as the last step of the run() before left it.
C20_StateSurvivesRuns ==
  \A j \in Ids :
    (j > 1 /\ log[j].run # log[j - 1].run) =>
      /\ log[j].kind = "start"
      /\ log[j].pos = 1
      /\ log[j].seen = log[j - 1].left

\* The first step of the second run() saw a state other than the initial one.
C20_Witness ==
  \E j \in Ids :
    /\ j > 1
    /\ log[j].run = 2 /\ log[j - 1].run = 1
    /\ log[j].seen # InitialState
    /\ log[j].seen = log[j - 1].left
====
